---------------------------- MODULE Spec2Model ----------------------------
(* The harvest adaptor of run.py: main (watermark, fetch, filter, flow    *)
(* limit, loop), _process_record, _push_files_to_s3,                      *)
(* _decorate_message_with_error, _shutdown and the __main__ handler.      *)
(* The stored state (watermark, processed records) survives restarts;     *)
(* everything else is reset when a run starts.  Every call of an external *)
(* client inside a run may return or raise, and the process may be        *)
(* killed at any step of a run.                                           *)
EXTENDS Integers, Sequences, FiniteSets

(* ----------------------------- bounds ---------------------------------- *)
\* Number of records the metadata source holds.
NumRecords == 2
\* Datestamps and wall-clock readings range over 1..MaxStamp.
MaxStamp == 2
\* Largest configured EPRINTS_FLOW_LIMIT.
MaxFlow == 2
\* The count of a record's publications stops at MaxPub (MaxPub or more).
MaxPub == 2
\* Number of faults in a behaviour: a client call that raises, a generated
\* message that is not JSON or fails the schema, a kill of the process.
MaxFaults == 2

Ids == 1..NumRecords
Stamps == 1..MaxStamp

(* --------------------------- program values ---------------------------- *)
\* fetch_high_watermark() returning None: no watermark stored.
Absent == 0

VARIABLES
    stamp,            \* source: header.datestamp of each record
    watermark,        \* store: the high watermark (Absent or a stamp)
    processed,        \* store: per identifier [status, message, reason]
    pc,               \* position of the process
    flow_limit,       \* main: int(settings['EPRINTS_FLOW_LIMIT'])
    start_timestamp,  \* main: start_timestamp
    records,          \* main: the sequence fetch_records_from returned
    pos,              \* filter(): index of the next record to pull
    taken,            \* islice(): number of records yielded so far
    keep,             \* result of the last _record_success_filter call
    cur,              \* _process_record: the record (its identifier)
    s3_objects,       \* _process_record: s3_objects
    message,          \* _process_record: message
    status,           \* _process_record: status
    reason,           \* _process_record: reason
    err_code,         \* _process_record: err_code
    primary,          \* output stream, this run
    invalid,          \* invalid-message stream, this run
    inHandler,        \* control is in the except block of __main__
    exitStatus,       \* exit status of the last run (-1: none yet)
    faults,           \* number of faults so far
    hist              \* history of the run, for stating the claims

vars == <<stamp, watermark, processed, pc, flow_limit, start_timestamp,
          records, pos, taken, keep, cur, s3_objects, message, status, reason,
          err_code, primary, invalid, inHandler, exitStatus, faults,
          hist>>

store == <<watermark, processed>>
source == <<stamp>>
mainLocals == <<flow_limit, start_timestamp, records>>
iterLocals == <<pos, taken, keep>>
procLocals == <<cur, s3_objects, message, status, reason, err_code>>
streams == <<primary, invalid>>

(* ------------------------------ messages ------------------------------- *)
\* message = None
NoMessage ==
    [form |-> "none", rid |-> 0, valid |-> FALSE, files |-> << >>,
     errorCode |-> "", errorMessage |-> ""]

\* The '-' stored in place of an absent or empty message.
Placeholder ==
    [form |-> "placeholder", rid |-> 0, valid |-> FALSE, files |-> << >>,
     errorCode |-> "", errorMessage |-> ""]

\* app.PoisonPill, the shutdown marker.
PoisonPill ==
    [form |-> "PoisonPill", rid |-> 0, valid |-> FALSE, files |-> << >>,
     errorCode |-> "", errorMessage |-> ""]

\* What generate_metadata_create can return for record r and the file
\* locations fs: text that is JSON or not, that meets the schema or not.
Generated(r, fs) ==
    { [form |-> "raw", rid |-> r, valid |-> v, files |-> fs,
       errorCode |-> "", errorMessage |-> ""] : v \in BOOLEAN }
    \cup
    { [form |-> "malformed", rid |-> r, valid |-> FALSE, files |-> fs,
       errorCode |-> "", errorMessage |-> ""] }

\* json.loads(m, strict=False) raises: on None (TypeError) and on text
\* that is not JSON.
JsonLoadsRaises(m) == m.form \in {"none", "malformed"}

\* json.dumps(json.loads(m)): the canonical text of the same document.
JsonRoundTrip(m) == [m EXCEPT !.form = "canon"]

\* json.dumps of a str: the text as a JSON string literal, in quotes.
JsonDumpsStr(s) == "\"" \o s \o "\""

\* message_validator.validate_message(m) raises when m fails the schema.
ValidateRaises(m) == ~m.valid

\* str(e) of the exception each step raises.
ExcText(step) ==
    CASE step = "relocate"    -> "S3Error"
      [] step = "generate"    -> "GenerationError"
      [] step = "reserialize" -> "JSONDecodeError"
      [] step = "validate"    -> "ValidationError"
      [] OTHER                -> "KinesisError"


\* The message argument of update_processed_record:
\* message if message is not None and len(message) > 0 else '-'.
StoredMessage(m) == IF m.form = "none" THEN Placeholder ELSE m

\* A decorator that returns every message as it got it.
DecorateMessageWithErrorMut(m, error_code, error_message) == m

\* _decorate_message_with_error(message, error_code, error_message).
DecorateMessageWithError(m, error_code, error_message) ==
    IF JsonLoadsRaises(m)
    THEN m
    ELSE [m EXCEPT !.form = "canon",
                   !.errorCode = error_code,
                   !.errorMessage = JsonDumpsStr(error_message)]

(* ------------------------------- source -------------------------------- *)
\* record['metadata']['identifier'] of each record: <<scheme, rest>> values.
\* Record 1 has a file and a line of text, record 2 a file that is gone
\* from the repository and a file that is there, the others one file.
Idents(r) ==
    CASE r = 1 -> << <<"https://", "eprints/1/paper.pdf">>,
                     <<"", "Working Paper 1">> >>
      [] r = 2 -> << <<"http://", "eprints/2/gone.pdf">>,
                     <<"https://", "eprints/2/data.csv">> >>
      [] OTHER -> << <<"http://", "eprints/n/paper.pdf">> >>

\* download_client.download_file(identifier) returns a path, and not None.
Downloads(v) == v[2] # "eprints/2/gone.pdf"

\* A test that takes every identifier value for a file URL.
IsFileUrlAny(v) == TRUE

\* identifier.startswith('http://') or identifier.startswith('https://')
IsFileUrl(v) == v[1] \in {"http://", "https://"}

\* s3_client.push_to_bucket(identifier, file_path): a reference keyed by
\* the source URL.
S3Ref(v) == <<"s3://", v[2]>>

\* file_locations of _push_files_to_s3, from identifier i on.
RECURSIVE FileLocations(_, _)
FileLocations(ids, i) ==
    IF i > Len(ids)
    THEN << >>
    ELSE (IF IsFileUrl(ids[i]) /\ Downloads(ids[i])
          THEN << S3Ref(ids[i]) >>
          ELSE << >>)
         \o FileLocations(ids, i + 1)

\* The arguments of the download_file calls of _push_files_to_s3 for the
\* identifiers i..last, in call order.
RECURSIVE DownloadCalls(_, _, _)
DownloadCalls(ids, i, last) ==
    IF i > last
    THEN << >>
    ELSE (IF IsFileUrl(ids[i]) THEN << ids[i] >> ELSE << >>)
         \o DownloadCalls(ids, i + 1, last)

\* Whether _push_files_to_s3 calls a client at all for these identifiers.
HasFileUrl(ids) == \E i \in 1..Len(ids) : IsFileUrl(ids[i])

\* The identifiers, in the order the source returns them: ascending
\* datestamp (ties in identifier order).
RECURSIVE Ascending(_)
Ascending(S) ==
    IF S = {}
    THEN << >>
    ELSE LET r == CHOOSE x \in S :
                    \A y \in S : stamp[x] < stamp[y]
                                 \/ (stamp[x] = stamp[y] /\ x <= y)
         IN  << r >> \o Ascending(S \ {r})

\* eprints_client.fetch_records_from(ts): the records whose datestamp is
\* not earlier than ts.
FetchRecordsFrom(ts) == Ascending({r \in Ids : stamp[r] >= ts})

(* ------------------------- decisions of the code ----------------------- *)
\* A filter that drops every record that has a stored status.
RecordSuccessFilterMut(st) == st = "None"

\* A filter that passes the records stored as Failure only.
RecordSuccessFilterFailed(st) == st = "Failure"

\* A filter that passes every record.
RecordSuccessFilterAll(st) == TRUE

\* _record_success_filter: False when the stored status is 'Success'.
RecordSuccessFilter(st) == st # "Success"

\* An islice that stops one item late.
IsliceStopsMut(n, limit) == n > limit

\* A cap on the records pulled from the source, excluded ones included.
IsliceStopsPulled(n, limit) == pos - 1 >= limit

\* itertools.islice(it, flow_limit): stops once flow_limit items were
\* yielded, without pulling from it.
IsliceStops(n, limit) == n >= limit

\* The two store writes the other way round.
WriteOrderMut == <<"watermark", "outcome">>

\* The two store writes of _process_record, in program order.
WriteOrder == <<"outcome", "watermark">>

\* A watermark that advances only past a record that succeeded.
NewWatermarkMut(r) == IF status = "Success" THEN stamp[r] ELSE watermark

\* A watermark that is set to the latest reading of the clock.
NewWatermarkNow(r) == MaxStamp

\* A watermark that is advanced past the record.
NewWatermarkPast(r) == stamp[r] + 1

\* The argument of update_high_watermark in _process_record.
NewWatermark(r) == stamp[r]

\* err_code set by the handler of the json round trip.
ReserializeErrCode == "GENERR007"

\* err_code set by the handler of validate_message.
ValidateErrCode == "GENERR001"

\* An except block that sets the catch-all code whatever the gate set.
HandlerErrCodeMut(ec) == "GENERR009"

\* if err_code is None: err_code = 'GENERR009'
HandlerErrCode(ec) == IF ec = "None" THEN "GENERR009" ELSE ec

(* ------------------------------- state --------------------------------- *)
NoOutcome == [status |-> "None", message |-> NoMessage, reason |-> ""]

\* The history kept for stating the claims.  Cumulative over the runs:
\*   pubCount[r]  times a message of record r went onto the output stream
\* Of the run before the current one:
\*   prevCause   the store write of _process_record that raised in it
\*               ("none": no one)
\*   prevFailed  the record of that _process_record call (0: none)
\* Of the current run:
\*   wmAtStart      the stored watermark when the run started
\*   eligible       number of fetched records whose stored status was not
\*                  Success when they were fetched (-1: nothing fetched)
\*   excluded       the fetched records the filter has dropped
\*   attempted      number of _process_record calls
\*   lastAttempted  the record of the last _process_record call (0: none)
\*   outWrites, wmWrites  store writes done by the last call
\*   downloads      the arguments of the download_file calls of the last
\*                  call, in call order
\*   primPubs, invPubs    messages the last call put on the output stream
\*                        and on the invalid-message stream
\*   procEnd        "none", "running", "returned" or "raised", of that call
\*   failedAt       the step of that call that raised ("none": no step)
\*   gateCode       err_code as the except block of that call left it
\*   shutdowns      number of _shutdown calls
\*   ended          "no", "normal" (main returned), "error" (the handler of
\*                  __main__ ran) or "killed"
\*   cause          the call whose exception escaped main ("none": no one)
InitHist ==
    [pubCount |-> [r \in Ids |-> 0],
     prevCause |-> "none", prevFailed |-> 0,
     wmAtStart |-> Absent, eligible |-> -1, excluded |-> {},
     attempted |-> 0, lastAttempted |-> 0, outWrites |-> 0,
     wmWrites |-> 0, downloads |-> << >>, primPubs |-> 0, invPubs |-> 0,
     procEnd |-> "none", failedAt |-> "none",
     gateCode |-> "None", shutdowns |-> 0, ended |-> "no", cause |-> "none"]

\* The exceptions of the two store writes of _process_record, as cause.
StoreWrites == {"outcome_write", "watermark_write"}

\* The sources: the records in ascending datestamp order.
Sources == {f \in [Ids -> Stamps] : \A i, j \in Ids : i <= j => f[i] <= f[j]}

Init ==
    /\ stamp \in Sources
    /\ watermark = Absent
    /\ processed = [r \in Ids |-> NoOutcome]
    /\ pc = "stopped"
    /\ flow_limit = 0
    /\ start_timestamp = Absent
    /\ records = << >>
    /\ pos = 1
    /\ taken = 0
    /\ keep = FALSE
    /\ cur = 0
    /\ s3_objects = << >>
    /\ message = NoMessage
    /\ status = "Success"
    /\ reason = "-"
    /\ err_code = "None"
    /\ primary = << >>
    /\ invalid = << >>
    /\ inHandler = FALSE
    /\ exitStatus = -1
    /\ faults = 0
    /\ hist = InitHist

(* ------------------------------- faults -------------------------------- *)
\* One more fault happens.
Fault ==
    /\ faults < MaxFaults
    /\ faults' = faults + 1

(* ------------------------------- main ---------------------------------- *)
\* The process is started: settings are read and the clients created.
StartRun ==
    /\ pc = "stopped"
    /\ pc' = "main_watermark"
    /\ flow_limit' \in 0..MaxFlow
    /\ start_timestamp' = Absent
    /\ records' = << >>
    /\ pos' = 1
    /\ taken' = 0
    /\ keep' = FALSE
    /\ cur' = 0
    /\ s3_objects' = << >>
    /\ message' = NoMessage
    /\ status' = "Success"
    /\ reason' = "-"
    /\ err_code' = "None"
    /\ primary' = << >>
    /\ invalid' = << >>
    /\ inHandler' = FALSE
    /\ exitStatus' = -1
    /\ hist' = [hist EXCEPT !.prevCause = IF hist.cause \in StoreWrites
                                           THEN hist.cause ELSE "none",
                            !.prevFailed = IF hist.cause \in StoreWrites
                                            THEN hist.lastAttempted ELSE 0,
                            !.wmAtStart = watermark, !.eligible = -1,
                            !.excluded = {}, !.attempted = 0,
                            !.lastAttempted = 0,
                            !.outWrites = 0, !.wmWrites = 0,
                            !.downloads = << >>,
                            !.primPubs = 0, !.invPubs = 0,
                            !.procEnd = "none", !.failedAt = "none",
                            !.gateCode = "None", !.shutdowns = 0,
                            !.ended = "no", !.cause = "none"]
    /\ UNCHANGED <<source, store, faults>>

\* An exception leaves main: control passes to the except block of
\* __main__.
Escapes(call) ==
    /\ pc' = "main_except"
    /\ hist' = [hist EXCEPT !.cause = call]

\* start_timestamp = fetch_high_watermark(); on a first run the watermark
\* becomes now and is stored.
FetchHighWatermark ==
    /\ pc = "main_watermark"
    /\ \/ /\ watermark # Absent
          /\ start_timestamp' = watermark
          /\ pc' = "main_fetch"
          /\ UNCHANGED <<store, hist, faults>>
       \/ /\ watermark = Absent
          /\ \E now \in Stamps :
                /\ start_timestamp' = now
                /\ watermark' = now
          /\ pc' = "main_fetch"
          /\ UNCHANGED <<processed, hist, faults>>
       \/ /\ watermark = Absent
          /\ \E now \in Stamps : start_timestamp' = now
          /\ Escapes("bootstrap_write")
          /\ Fault
          /\ UNCHANGED store
    /\ UNCHANGED <<source, flow_limit, records, iterLocals, procLocals,
                   streams, inHandler, exitStatus>>

\* records = fetch_records_from(start_timestamp), and the filter and the
\* islice over it are built.
FetchRecords ==
    /\ pc = "main_fetch"
    /\ records' = FetchRecordsFrom(start_timestamp)
    /\ pos' = 1
    /\ taken' = 0
    /\ pc' = "loop"
    /\ hist' = [hist EXCEPT !.eligible =
                   Cardinality({i \in DOMAIN records' :
                                  processed[records'[i]].status # "Success"})]
    /\ UNCHANGED <<faults, source, store, flow_limit, start_timestamp, keep,
                   procLocals, streams, inHandler, exitStatus>>

\* The for statement asks the islice for its next item: the islice stops
\* at flow_limit items, the filter when the records are exhausted;
\* otherwise the filter calls its predicate on the next record.
LoopNext ==
    /\ pc = "loop"
    /\ IF IsliceStops(taken, flow_limit) \/ pos > Len(records)
       THEN pc' = "main_shutdown"
       ELSE pc' = "filter"
    /\ UNCHANGED <<faults, source, store, mainLocals, iterLocals, procLocals,
                   streams, inHandler, exitStatus, hist>>

\* _record_success_filter(records[pos]).
RecordSuccessFilterCall ==
    /\ pc = "filter"
    /\ keep' = RecordSuccessFilter(processed[records[pos]].status)
    /\ pc' = "filtered"
    /\ UNCHANGED <<faults, source, store, mainLocals, pos, taken, procLocals,
                   streams, inHandler, exitStatus, hist>>

\* The filter drops the record and pulls the next one, or yields it: the
\* loop body calls _process_record, which sets its locals.
FilterYield ==
    /\ pc = "filtered"
    /\ pos' = pos + 1
    /\ IF keep
       THEN /\ taken' = taken + 1
            /\ cur' = records[pos]
            /\ s3_objects' = << >>
            /\ message' = NoMessage
            /\ status' = "Success"
            /\ reason' = "-"
            /\ err_code' = "None"
            /\ pc' = "proc_relocate"
            /\ hist' = [hist EXCEPT !.attempted = @ + 1,
                                    !.lastAttempted = records[pos],
                                    !.outWrites = 0, !.wmWrites = 0,
                                    !.downloads = << >>,
                                    !.primPubs = 0, !.invPubs = 0,
                                    !.procEnd = "running",
                                    !.failedAt = "none",
                                    !.gateCode = "None"]
       ELSE /\ pc' = "loop"
            /\ hist' = [hist EXCEPT !.excluded = @ \cup {records[pos]}]
            /\ UNCHANGED <<taken, procLocals>>
    /\ UNCHANGED <<faults, source, store, mainLocals, keep, streams, inHandler,
                   exitStatus>>

(* -------------------------- _process_record ---------------------------- *)
\* A step inside the try block raises: control passes to the except
\* block of _process_record.
Raises(step) ==
    /\ pc' = "proc_except"
    /\ reason' = ExcText(step)
    /\ hist' = [hist EXCEPT !.failedAt = step]

\* download_file or push_to_bucket raises for the file URL at index k of
\* the identifiers: the exception leaves _push_files_to_s3.
RelocationRaises(k) ==
    /\ pc' = "proc_except"
    /\ reason' = ExcText("relocate")
    /\ hist' = [hist EXCEPT !.failedAt = "relocate",
                            !.downloads = DownloadCalls(Idents(cur), 1, k)]

\* s3_objects = _push_files_to_s3(record): each file URL is downloaded
\* and, unless download_file returned None, pushed to the bucket; a client
\* may raise.
PushFilesToS3 ==
    /\ pc = "proc_relocate"
    /\ \/ /\ s3_objects' = FileLocations(Idents(cur), 1)
          /\ pc' = "proc_generate"
          /\ hist' = [hist EXCEPT !.downloads =
                         DownloadCalls(Idents(cur), 1, Len(Idents(cur)))]
          /\ UNCHANGED <<reason, faults>>
       \/ /\ \E k \in DOMAIN Idents(cur) :
                /\ IsFileUrl(Idents(cur)[k])
                /\ RelocationRaises(k)
          /\ Fault
          /\ UNCHANGED s3_objects
    /\ UNCHANGED <<source, store, mainLocals, iterLocals, cur, message,
                   status, err_code, streams, inHandler, exitStatus>>

\* message = message_generator.generate_metadata_create(record, s3_objects)
GenerateMetadataCreate ==
    /\ pc = "proc_generate"
    /\ \/ /\ message' \in Generated(cur, s3_objects)
          /\ IF message'.form = "raw" /\ message'.valid
             THEN UNCHANGED faults
             ELSE Fault
          /\ pc' = "proc_reserialize"
          /\ UNCHANGED <<reason, hist>>
       \/ /\ Raises("generate")
          /\ Fault
          /\ UNCHANGED message
    /\ UNCHANGED <<source, store, mainLocals, iterLocals, cur,
                   s3_objects, status, err_code, streams, inHandler,
                   exitStatus>>

\* message = json.dumps(json.loads(message, strict=False)), with its
\* handler.
Reserialize ==
    /\ pc = "proc_reserialize"
    /\ IF JsonLoadsRaises(message)
       THEN /\ err_code' = ReserializeErrCode
            /\ Raises("reserialize")
            /\ UNCHANGED message
       ELSE /\ message' = JsonRoundTrip(message)
            /\ pc' = "proc_validate"
            /\ UNCHANGED <<err_code, reason, hist>>
    /\ UNCHANGED <<faults, source, store, mainLocals, iterLocals, cur,
                   s3_objects, status, streams, inHandler, exitStatus>>

\* message_validator.validate_message(message), with its handler.
ValidateMessage ==
    /\ pc = "proc_validate"
    /\ IF ValidateRaises(message)
       THEN /\ err_code' = ValidateErrCode
            /\ Raises("validate")
       ELSE /\ pc' = "proc_publish"
            /\ UNCHANGED <<err_code, reason, hist>>
    /\ UNCHANGED <<faults, source, store, mainLocals, iterLocals, cur,
                   s3_objects, message, status, streams, inHandler,
                   exitStatus>>

\* kinesis_client.put_message_on_queue(message)
PutMessageOnQueue ==
    /\ pc = "proc_publish"
    /\ \/ /\ primary' = Append(primary, message)
          /\ pc' = "proc_write1"
          /\ hist' = [hist EXCEPT
                        !.pubCount[cur] = IF @ < MaxPub THEN @ + 1 ELSE @,
                        !.primPubs = @ + 1]
          /\ UNCHANGED <<reason, faults>>
       \/ /\ Raises("publish")
          /\ Fault
          /\ UNCHANGED primary
    /\ UNCHANGED <<source, store, mainLocals, iterLocals, cur,
                   s3_objects, message, status, err_code, invalid, inHandler,
                   exitStatus>>

\* except Exception as e: the error code, the status and the decorated
\* message.
ExceptBlock ==
    /\ pc = "proc_except"
    /\ err_code' = HandlerErrCode(err_code)
    /\ status' = "Failure"
    /\ message' = DecorateMessageWithError(message, err_code', reason)
    /\ pc' = "proc_put_invalid"
    /\ hist' = [hist EXCEPT !.gateCode = err_code']
    /\ UNCHANGED <<faults, source, store, mainLocals, iterLocals, cur,
                   s3_objects, reason, streams, inHandler, exitStatus>>

\* kinesis_client.put_invalid_message_on_queue(message), inside the except
\* block: an exception here leaves _process_record.
PutInvalidMessageOnQueue ==
    /\ pc = "proc_put_invalid"
    /\ \/ /\ invalid' = Append(invalid, message)
          /\ pc' = "proc_write1"
          /\ hist' = [hist EXCEPT !.invPubs = @ + 1]
          /\ UNCHANGED faults
       \/ /\ Fault
          /\ pc' = "main_except"
          /\ hist' = [hist EXCEPT !.procEnd = "raised",
                                  !.cause = "put_invalid"]
          /\ UNCHANGED invalid
    /\ UNCHANGED <<source, store, mainLocals, iterLocals, procLocals,
                   primary, inHandler, exitStatus>>

\* One of the two store writes of _process_record:
\* update_processed_record(identifier, message or '-', status, reason), or
\* update_high_watermark(record datestamp).
StoreWrite(which) ==
    IF which = "outcome"
    THEN /\ processed' = [processed EXCEPT ![cur] =
                            [status |-> status,
                             message |-> StoredMessage(message),
                             reason |-> reason]]
         /\ hist' = [hist EXCEPT !.outWrites = @ + 1]
         /\ UNCHANGED watermark
    ELSE /\ watermark' = NewWatermark(cur)
         /\ hist' = [hist EXCEPT !.wmWrites = @ + 1]
         /\ UNCHANGED processed

\* A store write raises: the exception leaves _process_record.
StoreWriteRaises(which) ==
    /\ Fault
    /\ pc' = "main_except"
    /\ hist' = [hist EXCEPT !.procEnd = "raised",
                            !.cause = which \o "_write"]
    /\ UNCHANGED store

\* The first store write.
ProcWrite1 ==
    /\ pc = "proc_write1"
    /\ \/ /\ StoreWrite(WriteOrder[1])
          /\ pc' = "proc_write2"
          /\ UNCHANGED faults
       \/ StoreWriteRaises(WriteOrder[1])
    /\ UNCHANGED <<source, mainLocals, iterLocals, procLocals, streams,
                   inHandler, exitStatus>>

\* The second store write, after which _process_record returns.
ProcWrite2 ==
    /\ pc = "proc_write2"
    /\ \/ /\ StoreWrite(WriteOrder[2])
          /\ pc' = "proc_return"
          /\ UNCHANGED faults
       \/ StoreWriteRaises(WriteOrder[2])
    /\ UNCHANGED <<source, mainLocals, iterLocals, procLocals, streams,
                   inHandler, exitStatus>>

\* _process_record returns to the loop.
ProcReturn ==
    /\ pc = "proc_return"
    /\ pc' = "loop"
    /\ hist' = [hist EXCEPT !.procEnd = "returned"]
    /\ UNCHANGED <<faults, source, store, mainLocals, iterLocals, procLocals,
                   streams, inHandler, exitStatus>>

(* ----------------------- _shutdown and __main__ ------------------------ *)
\* The call of _shutdown that ends main.
MainShutdown ==
    /\ pc = "main_shutdown"
    /\ pc' = "shutdown_pill"
    /\ hist' = [hist EXCEPT !.shutdowns = @ + 1]
    /\ UNCHANGED <<faults, source, store, mainLocals, iterLocals, procLocals,
                   streams, inHandler, exitStatus>>

\* except Exception: of __main__: the error is logged and _shutdown
\* called.
MainExcept ==
    /\ pc = "main_except"
    /\ inHandler' = TRUE
    /\ pc' = "shutdown_pill"
    /\ hist' = [hist EXCEPT !.shutdowns = @ + 1]
    /\ UNCHANGED <<faults, source, store, mainLocals, iterLocals, procLocals,
                   streams, exitStatus>>

\* The process ends with exit status code: its variables are gone, the
\* store and what went onto the streams stay.
Stops(code, how) ==
    /\ pc' = "stopped"
    /\ exitStatus' = code
    /\ hist' = [hist EXCEPT !.ended = how]
    /\ flow_limit' = 0
    /\ start_timestamp' = Absent
    /\ records' = << >>
    /\ pos' = 1
    /\ taken' = 0
    /\ keep' = FALSE
    /\ cur' = 0
    /\ s3_objects' = << >>
    /\ message' = NoMessage
    /\ status' = "Success"
    /\ reason' = "-"
    /\ err_code' = "None"
    /\ inHandler' = FALSE

\* A call inside _shutdown raises: from main the exception reaches the
\* handler of __main__; from the handler nothing catches it, and the
\* interpreter exits with status 1.
ShutdownRaises(call) ==
    /\ Fault
    /\ IF inHandler
       THEN Stops(1, "error")
       ELSE /\ Escapes(call)
               /\ UNCHANGED <<mainLocals, iterLocals, procLocals, inHandler,
                           exitStatus>>

\* kinesis_client.put_message_on_queue(PoisonPill)
ShutdownPoisonPill ==
    /\ pc = "shutdown_pill"
    /\ \/ /\ primary' = Append(primary, PoisonPill)
          /\ pc' = "shutdown_validator"
          /\ UNCHANGED <<mainLocals, iterLocals, procLocals, inHandler,
                         exitStatus, hist, faults>>
       \/ /\ ShutdownRaises("poison_pill")
          /\ UNCHANGED primary
    /\ UNCHANGED <<source, store, invalid>>

\* message_validator.shutdown(); then the process ends: main returned, or
\* the handler of __main__ is done, and the exit status is 0 either way.
ShutdownValidator ==
    /\ pc = "shutdown_validator"
    /\ \/ /\ Stops(0, IF inHandler THEN "error" ELSE "normal")
          /\ UNCHANGED faults
       \/ ShutdownRaises("validator_shutdown")
    /\ UNCHANGED <<source, store, streams>>

\* The process is killed (exit status 128 + SIGKILL): nothing more runs.
Crash ==
    /\ pc # "stopped"
    /\ Fault
    /\ Stops(137, "killed")
    /\ UNCHANGED <<source, store, streams>>

Next ==
    \/ StartRun
    \/ FetchHighWatermark
    \/ FetchRecords
    \/ LoopNext
    \/ RecordSuccessFilterCall
    \/ FilterYield
    \/ PushFilesToS3
    \/ GenerateMetadataCreate
    \/ Reserialize
    \/ ValidateMessage
    \/ PutMessageOnQueue
    \/ ExceptBlock
    \/ PutInvalidMessageOnQueue
    \/ ProcWrite1
    \/ ProcWrite2
    \/ ProcReturn
    \/ MainShutdown
    \/ MainExcept
    \/ ShutdownPoisonPill
    \/ ShutdownValidator
    \/ Crash

Spec == Init /\ [][Next]_vars

\* The runs in which the process is not killed.
NextNoKill ==
    \/ StartRun
    \/ FetchHighWatermark
    \/ FetchRecords
    \/ LoopNext
    \/ RecordSuccessFilterCall
    \/ FilterYield
    \/ PushFilesToS3
    \/ GenerateMetadataCreate
    \/ Reserialize
    \/ ValidateMessage
    \/ PutMessageOnQueue
    \/ ExceptBlock
    \/ PutInvalidMessageOnQueue
    \/ ProcWrite1
    \/ ProcWrite2
    \/ ProcReturn
    \/ MainShutdown
    \/ MainExcept
    \/ ShutdownPoisonPill
    \/ ShutdownValidator

SpecNoKill == Init /\ [][NextNoKill]_vars

(* ------------------------------- claims -------------------------------- *)
\* Number of shutdown markers on the output stream of this run.
Pills == Cardinality({i \in DOMAIN primary : primary[i] = PoisonPill})

\* The records fetched since the watermark that pass the filter.
CandidateSet ==
    {records[i] : i \in {j \in DOMAIN records :
                           RecordSuccessFilter(processed[records[j]].status)}}

\* The state in which main has fetched the records and built the filter,
\* and nothing was pulled yet.
JustFetched == pc = "loop" /\ pos = 1 /\ taken = 0

\* The run ended by itself: main returned, or the handler of __main__ ran.
EndedByItself == pc = "stopped" /\ hist.ended \in {"normal", "error"}

\* C1: over all runs, failing store writes and kills included, the message
\* of one record goes onto the output stream at most once.
C1_PublishedAtMostOnce == \A r \in Ids : hist.pubCount[r] <= 1

\* C2: _record_success_filter returns False exactly when the stored status
\* of the record is Success, True when it is absent or Failure, and leaves
\* the store as it is.
C2_FilterDecision ==
    [][(pc = "filter" /\ pc' = "filtered") =>
         /\ (keep' = FALSE) <=> (processed[records[pos]].status = "Success")
         /\ (keep' = TRUE) <=>
                (processed[records[pos]].status \in {"None", "Failure"})
         /\ UNCHANGED store]_vars

\* C2, its case: the filter has dropped a record.
C2_Witness == pc = "filtered" /\ ~keep

\* C3: a record whose stored outcome is Failure when a run starts is in
\* the candidate set of that run, whatever was attempted after it.
C3_RetryOnFailure ==
    JustFetched =>
        \A r \in Ids : processed[r].status = "Failure" => r \in CandidateSet

\* C4, as claimed: after a run that attempted a record, the stored
\* watermark is the datestamp of the last record attempted, and is not
\* earlier than before the run.  Stated for the runs that ended by
\* themselves and in which no publish on the invalid stream raised.
C4_WatermarkIsLastAttempted ==
    (EndedByItself /\ hist.cause # "put_invalid" /\ hist.lastAttempted # 0)
        => /\ watermark = stamp[hist.lastAttempted]
           /\ watermark >= hist.wmAtStart

\* C4, amended: after a run whose last _process_record call returned, the
\* stored watermark is the datestamp of the record of that call; after any
\* run, the stored watermark is not earlier than before it.
C4_WatermarkAfterReturn ==
    pc = "stopped" =>
        /\ (hist.procEnd = "returned"
               => watermark = stamp[hist.lastAttempted])
        /\ watermark >= hist.wmAtStart

\* C4, its case: a run other than the first ended, and its last record
\* moved the watermark.
C4_Witness ==
    /\ EndedByItself
    /\ hist.procEnd = "returned"
    /\ hist.wmAtStart # Absent
    /\ watermark > hist.wmAtStart

\* C5: in a run, the number of _process_record calls never exceeds the
\* flow limit.
C5_FlowLimit == pc # "stopped" => hist.attempted <= flow_limit

\* C5, its case: the flow limit is used up while the next fetched record
\* would pass the filter.
C5_Witness ==
    /\ pc = "loop"
    /\ flow_limit >= 1
    /\ hist.attempted = flow_limit
    /\ pos <= Len(records)
    /\ RecordSuccessFilter(processed[records[pos]].status)

\* C6: a _process_record call in which no store write raises does not
\* raise, and makes one outcome write and one watermark write.
C6_ProcessNeverRaises ==
    /\ hist.procEnd = "raised"
           => hist.cause \in {"outcome_write", "watermark_write"}
    /\ hist.procEnd = "returned"
           => hist.outWrites = 1 /\ hist.wmWrites = 1

\* C7: in every state, kills and failing store writes included, the
\* watermark was written by a _process_record call only if that call has
\* stored the outcome of its record before.
C7_OutcomeBeforeWatermark ==
    hist.wmWrites >= 1 =>
        /\ hist.outWrites = 1
        /\ processed[hist.lastAttempted].status # "None"

\* C7, its case: the process stopped between the two writes.
C7_Witness ==
    /\ pc = "stopped"
    /\ hist.outWrites = 1
    /\ hist.wmWrites = 0
    /\ processed[hist.lastAttempted].status # "None"
    /\ watermark # stamp[hist.lastAttempted]

\* C8: in a run, the shutdown marker goes onto the output stream at most
\* once, also when _shutdown itself raises, and a run in which main
\* returned has called _shutdown once and published the marker once.
C8_ShutdownOnce ==
    /\ Pills <= 1
    /\ (pc = "stopped" /\ hist.ended = "normal")
           => Pills = 1 /\ hist.shutdowns = 1

\* C9: when an exception escapes main, the process ends with a status
\* other than 0.
C9_NonZeroExit == (pc = "stopped" /\ hist.ended = "error") => exitStatus # 0

\* C10: the error code of a failed attempt is that of the gate that
\* failed: GENERR007 for the json round trip, GENERR001 for the
\* validation, GENERR009 for any other step.
C10_ErrorCodeByGate ==
    /\ pc = "proc_put_invalid" => hist.gateCode # "None"
    /\ hist.gateCode # "None" =>
          /\ hist.failedAt = "reserialize" => hist.gateCode = "GENERR007"
          /\ hist.failedAt = "validate" => hist.gateCode = "GENERR001"
          /\ hist.failedAt \in {"relocate", "generate", "publish"}
                 => hist.gateCode = "GENERR009"
          /\ hist.failedAt # "none"

\* C10, its case: the validation failed.
C10_Witness == pc = "proc_put_invalid" /\ hist.failedAt = "validate"

\* The message the last call put on the invalid-message stream.
LastInvalid == invalid[Len(invalid)]

\* The gates of the message: generation, json round trip, validation.
Gates == {"generate", "reserialize", "validate"}

\* C11, as claimed: when a _process_record call has returned, the stored
\* status is Success with reason '-' exactly when every step passed and
\* the message went onto the output stream and nothing onto the
\* invalid-message stream; when a gate failed, the stored status is
\* Failure, the stored reason is the text of the exception, one message
\* went onto the invalid-message stream and carries the error code, and
\* nothing went onto the output stream.
C11_OutcomeAndChannels ==
    pc = "proc_return" =>
        /\ (processed[cur].status = "Success" /\ processed[cur].reason = "-")
              <=> (/\ hist.failedAt = "none"
                   /\ hist.primPubs = 1
                   /\ hist.invPubs = 0)
        /\ hist.failedAt \in Gates =>
              /\ processed[cur].status = "Failure"
              /\ processed[cur].reason = ExcText(hist.failedAt)
              /\ hist.primPubs = 0
              /\ hist.invPubs = 1
              /\ LastInvalid.errorCode = hist.gateCode

\* C11, amended: the same, but the message on the invalid-message stream
\* carries the error code when it parses as JSON, and otherwise is the
\* message as generate_metadata_create left it (None when it raised),
\* without an error code.
C11_OutcomeAndChannelsParsed ==
    pc = "proc_return" =>
        /\ (processed[cur].status = "Success" /\ processed[cur].reason = "-")
              <=> (/\ hist.failedAt = "none"
                   /\ hist.primPubs = 1
                   /\ hist.invPubs = 0)
        /\ hist.failedAt \in Gates =>
              /\ processed[cur].status = "Failure"
              /\ processed[cur].reason = ExcText(hist.failedAt)
              /\ hist.primPubs = 0
              /\ hist.invPubs = 1
              /\ IF JsonLoadsRaises(LastInvalid)
                 THEN LastInvalid \in {NoMessage} \cup Generated(cur, s3_objects)
                 ELSE LastInvalid.errorCode = hist.gateCode

\* C11, its case: the validator rejected the message, and the call
\* returned after one message on the invalid-message stream.
C11_Witness ==
    /\ pc = "proc_return"
    /\ hist.failedAt = "validate"
    /\ hist.invPubs = 1
    /\ processed[cur].status = "Failure"

\* C12: a _process_record call in which a step of the try block (file
\* relocation, generation, json round trip, validation, publishing)
\* failed does not end the run: the call raises only when one of its two
\* store writes raises, and when it has returned, the stored status is
\* Failure and one message went onto the invalid-message stream.
C12_FailureNeverAborts ==
    hist.failedAt # "none" =>
        /\ hist.procEnd = "raised"
               => hist.cause \in {"outcome_write", "watermark_write"}
        /\ pc = "proc_return"
               => processed[cur].status = "Failure" /\ hist.invPubs = 1

\* The steps of the shutdown path, and the process after it.
ShutdownPath == {"main_except", "shutdown_pill", "shutdown_validator",
                 "stopped"}

\* What follows a store write of _process_record that raised: the call
\* raised, control is on the shutdown path and no other record is
\* attempted, and a run that ended by itself has called _shutdown.
WriteFailureEndsRun ==
    hist.cause \in StoreWrites =>
        /\ hist.procEnd = "raised"
        /\ pc \in ShutdownPath
        /\ EndedByItself => hist.shutdowns = 1

\* C13, as claimed: a store write of _process_record that raises ends the
\* run through the shutdown path with no further record attempted, and
\* the record of that call is in the candidate set of the next run.
C13_RetryAfterWriteFailure ==
    /\ WriteFailureEndsRun
    /\ (JustFetched /\ hist.prevFailed # 0)
           => hist.prevFailed \in CandidateSet

\* C13, amended: a store write of _process_record that raises ends the
\* run through the shutdown path with no further record attempted; the
\* next run fetches the record of that call again; it is in the candidate
\* set of the next run when the outcome write raised, and, when the
\* watermark write raised, exactly when the outcome stored is Failure.
C13_RefetchAfterWriteFailure ==
    /\ WriteFailureEndsRun
    /\ (JustFetched /\ hist.prevFailed # 0) =>
          /\ \E i \in DOMAIN records : records[i] = hist.prevFailed
          /\ processed[hist.prevFailed].status # "Success"
                 => hist.prevFailed \in CandidateSet
          /\ hist.prevCause = "outcome_write"
                 => hist.prevFailed \in CandidateSet
          /\ hist.prevCause = "watermark_write"
                 => processed[hist.prevFailed].status \in
                        {"Success", "Failure"}

\* C13, its case: the outcome write of a record raised, the run ended
\* through the handler of __main__, and the next run has fetched the
\* record again.
C13_Witness ==
    /\ JustFetched
    /\ hist.prevCause = "outcome_write"
    /\ hist.prevFailed \in CandidateSet

\* The run has fetched, and no fetched record passed the filter.
NoneEligible == hist.eligible = 0

\* The run has not fetched yet, or no fetched record passed the filter.
NoneEligibleSoFar == hist.eligible \in {-1, 0}

\* C14: in a run in which no fetched record passes the filter, nothing
\* goes onto the invalid-message stream and nothing but the shutdown
\* marker onto the output stream, which holds the marker alone when main
\* has returned; no step of the run writes an outcome; and the watermark
\* is changed by no step but the first-run bootstrap of an absent one.
C14_NoneEligibleRun ==
    /\ [](NoneEligible =>
             /\ hist.attempted = 0
             /\ invalid = << >>
             /\ \A i \in DOMAIN primary : primary[i] = PoisonPill
             /\ (pc = "stopped" /\ hist.ended = "normal")
                    => primary = << PoisonPill >>
             /\ hist.wmAtStart # Absent => watermark = hist.wmAtStart)
    /\ [][(NoneEligibleSoFar /\ NoneEligibleSoFar') =>
             /\ processed' = processed
             /\ watermark' # watermark
                    => (watermark = Absent /\ pc = "main_watermark")]_vars

\* C14, its case: every fetched record was Success already, the flow
\* limit would have allowed an attempt, and main has returned after the
\* shutdown marker.
C14_Witness ==
    /\ pc = "stopped"
    /\ hist.ended = "normal"
    /\ hist.eligible = 0
    /\ \E r \in Ids : processed[r].status = "Success"
                      /\ stamp[r] >= watermark
    /\ primary = << PoisonPill >>

\* An identifier value that is an http:// or https:// URL.
IsUrlValue(v) == v[1] = "http://" \/ v[1] = "https://"

\* An identifier value that is a URL whose download succeeds.
IsRelocated(v) == IsUrlValue(v) /\ Downloads(v)

\* C15: the list _push_files_to_s3 hands to generate_metadata_create
\* holds, in the order of the identifiers, one reference for each
\* identifier value that is a URL whose download succeeded; download_file
\* is called once for each URL and for no other value; and a record one of
\* whose downloads failed is stored as Success when no step raised.
C15_FileLocations ==
    pc \in {"proc_generate", "proc_reserialize", "proc_validate",
            "proc_publish", "proc_write1", "proc_write2", "proc_return"}
    /\ hist.failedAt # "relocate" =>
        LET urls == SelectSeq(Idents(cur), IsUrlValue)
            done == SelectSeq(Idents(cur), IsRelocated)
        IN  /\ hist.downloads = urls
            /\ Len(s3_objects) = Len(done)
            /\ \A k \in DOMAIN done : s3_objects[k] = S3Ref(done[k])
            /\ (message.form # "none" /\ hist.failedAt = "none")
                   => message.files = s3_objects
            /\ (pc = "proc_return" /\ hist.failedAt = "none")
                   => processed[cur].status = "Success"

\* C15, its case: a record with a file whose download failed and a file
\* that was relocated has been stored as Success.
C15_Witness ==
    /\ pc = "proc_return"
    /\ hist.failedAt = "none"
    /\ \E k \in DOMAIN Idents(cur) :
           IsUrlValue(Idents(cur)[k]) /\ ~Downloads(Idents(cur)[k])
    /\ Len(s3_objects) = 1
    /\ processed[cur].status = "Success"

\* C15, a second case: a value that is not a URL was passed over.
C15_WitnessText ==
    /\ pc = "proc_generate"
    /\ \E k \in DOMAIN Idents(cur) : ~IsUrlValue(Idents(cur)[k])
    /\ Len(hist.downloads) = 1

\* C16: the message a failed _process_record call put on the
\* invalid-message stream is, when the message parses as JSON, that
\* message with the error code of the call as errorCode and the text of
\* the exception as errorMessage, and otherwise the message as it was
\* (None when generate_metadata_create had not returned).
C16_ErrorDecoration ==
    (hist.invPubs = 1 /\ pc \in {"proc_write1", "proc_write2",
                                 "proc_return"}) =>
        IF JsonLoadsRaises(LastInvalid)
        THEN LastInvalid \in {NoMessage} \cup Generated(cur, s3_objects)
        ELSE /\ LastInvalid.rid = cur
             /\ LastInvalid.files = s3_objects
             /\ LastInvalid.errorCode = hist.gateCode
             /\ LastInvalid.errorMessage = ExcText(hist.failedAt)

\* C17: the error code of a failed attempt tells the four classes of
\* failure apart: an exception of generate_metadata_create gets GENERR007
\* and not the code of the unclassified failures (file relocation,
\* publishing), which get GENERR009, and the validation gets a code of its
\* own.
C17_DistinctErrorCodes ==
    hist.gateCode # "None" =>
        /\ hist.failedAt = "generate"
               => hist.gateCode = "GENERR007" /\ hist.gateCode # "GENERR009"
        /\ hist.failedAt \in {"relocate", "publish"}
               => hist.gateCode = "GENERR009"
        /\ hist.failedAt = "validate"
               => hist.gateCode \notin {"GENERR007", "GENERR009"}

\* C18: when the loop of main has ended, the number of _process_record
\* calls of the run is the smaller of the flow limit and the number of
\* fetched records that pass the filter, and no record after the one
\* that used up the flow limit was pulled from the fetched records.
C18_FlowLimitCountsPassing ==
    pc = "main_shutdown" =>
        /\ hist.attempted = IF flow_limit <= hist.eligible
                            THEN flow_limit ELSE hist.eligible
        /\ flow_limit = 0 => pos = 1
        /\ (flow_limit >= 1 /\ hist.attempted = flow_limit)
               => records[pos - 1] = hist.lastAttempted

\* C18, its case: the filter excluded a record, and the flow limit was
\* used up by the records after it.
C18_Witness ==
    /\ pc = "main_shutdown"
    /\ flow_limit >= 1
    /\ hist.attempted = flow_limit
    /\ pos - 1 > hist.attempted

\* C18, a second case: the flow limit was used up and a fetched record
\* that passes the filter was left unpulled.
C18_WitnessUnpulled ==
    /\ pc = "main_shutdown"
    /\ flow_limit >= 1
    /\ hist.attempted = flow_limit
    /\ hist.eligible > flow_limit
    /\ pos <= Len(records)

\* The fetched records the run has not pulled and that pass the filter.
CutOff ==
    {records[i] : i \in {j \in DOMAIN records :
                           /\ j >= pos
                           /\ processed[records[j]].status # "Success"}}

\* C19: with a source that returns the records in ascending datestamp
\* order, none earlier than the timestamp asked for, every fetched record
\* that passes the filter and was not pulled has a datestamp not earlier
\* than the stored watermark, in every state of the run; and the end of
\* the process leaves the store as it is, so that the next run fetches
\* these records.
C19_CutOffNotBeforeWatermark ==
    /\ [](pc # "stopped" => \A r \in CutOff : stamp[r] >= watermark)
    /\ [][(pc # "stopped" /\ pc' = "stopped") => UNCHANGED store]_vars

\* C19, its case: the flow limit cut a record off whose datestamp is that
\* of the last record attempted, to which the watermark was set.
C19_Witness ==
    /\ pc = "main_shutdown"
    /\ flow_limit >= 1
    /\ hist.attempted = flow_limit
    /\ CutOff # {}
    /\ watermark = stamp[hist.lastAttempted]
    /\ \E r \in CutOff : stamp[r] = watermark

\* The positions of _process_record at which it writes to the store.
StoreWritePcs == {"proc_write1", "proc_write2"}

\* C20: a fetched record the filter dropped is stored as Success, is not
\* the record of a _process_record call of the run, and has no message on
\* either stream of the run; the step that drops it changes neither the
\* store nor the streams and relocates no file; a stored outcome is
\* changed only by the store write of the call for that record; and the
\* watermark is changed only by the first-run bootstrap and by the store
\* write of a call, which sets it to the datestamp of its record.
C20_ExcludedNoEffects ==
    /\ [](\A r \in hist.excluded :
             /\ r # cur
             /\ processed[r].status = "Success"
             /\ \A i \in DOMAIN primary : primary[i].rid # r
             /\ \A i \in DOMAIN invalid : invalid[i].rid # r)
    /\ [][/\ (pc = "filtered" /\ ~keep /\ pc' = "loop")
                 => /\ UNCHANGED <<store, streams, s3_objects>>
                    /\ hist'.downloads = hist.downloads
          /\ \A r \in Ids :
                 processed'[r] # processed[r]
                     => /\ r = cur
                        /\ r \notin hist.excluded
                        /\ pc \in StoreWritePcs
          /\ watermark' # watermark
                 => \/ pc = "main_watermark" /\ watermark = Absent
                    \/ /\ pc \in StoreWritePcs
                       /\ cur = hist.lastAttempted
                       /\ watermark' = stamp[cur]]_vars

\* C20, its case: in one run the filter dropped a record and a record
\* after it was handled, which moved the watermark.
C20_Witness ==
    /\ pc = "proc_return"
    /\ hist.excluded # {}
    /\ hist.wmAtStart # Absent
    /\ watermark > hist.wmAtStart
    /\ \A r \in hist.excluded : processed[r].status = "Success"

=============================================================================
